---- MODULE Spec2Model ----
(***************************************************************************)
(* WeatherDataAnalyser (src/analyse_data.py): a CSV file is loaded once    *)
(* into a table by the constructor; five queries and the composite         *)
(* analyze() read that table.                                              *)
(*                                                                         *)
(* Encoding.  Temperatures are exact decimals held as integers in          *)
(* hundredths of a degree; every value the program rounds to 1 decimal is  *)
(* held as an integer in tenths of a degree.  Rounding is round-half-even  *)
(* (numpy's rint), computed on the exact quotient.  A threshold is in      *)
(* whole degrees, as argparse's type=int delivers it.                      *)
(* A Python value is a record [kind, value]; an outcome of a call is       *)
(* [status, exc, kind, value] with status "returned" or "raised".          *)
(* Temperature cells are numeric (no NaN cells in the files drawn here).   *)
(***************************************************************************)
EXTENDS Integers, Sequences, FiniteSets, TLC

VARIABLES file, phase, df, log, call, ret, invoked

vars == <<file, phase, df, log, call, ret, invoked>>

(* ------------------------------ inputs -------------------------------- *)

\* longest file, in data rows
MaxRows == 2

\* the default of analyze's fluctuation_threshold
DefaultThreshold == 20

\* date cells: two parseable dates and one that is not a date
RawDates == {"2024-01-01", "2024-01-02", "not-a-date"}

\* cities in the order groupby sorts them
CityOrder == <<"CityA", "CityB">>

CityNames == {CityOrder[i] : i \in DOMAIN CityOrder}

\* (celsius, fahrenheit) cells of a row, in hundredths of a degree
Readings == {<<0, 506>>, <<506, 4>>}

Uoms == {"celsius", "fahrenheit", "kelvin"}

Thresholds == {-1, 0, 5, DefaultThreshold}

CsvRows ==
  [date : RawDates, city : CityNames, reading : Readings]

RECURSIVE SeqsUpTo(_, _)
SeqsUpTo(S, n) ==
  IF n = 0 THEN {<<>>}
  ELSE LET shorter == SeqsUpTo(S, n - 1)
       IN  shorter \cup {Append(s, x) : s \in {t \in shorter : Len(t) = n - 1}, x \in S}

\* the files a constructor can be pointed at: a missing path, a zero-byte
\* file, a file with a ragged row, a CSV without a date column, and a CSV
\* with the four columns and 0..MaxRows data rows (0 rows: header only)
Files ==
  {[kind |-> k, rows |-> <<>>] : k \in {"missing", "zero_bytes", "ragged", "no_date_column"}}
    \cup {[kind |-> "csv", rows |-> r] : r \in SeqsUpTo(CsvRows, MaxRows)}

(* ------------------------------ values -------------------------------- *)

None == [kind |-> "None", value |-> <<>>]

NaT == <<>>

NaN == "nan"

\* a call: the method's name and its arguments, in order
Call(op, args) == [op |-> op, args |-> args]

NoCall == Call("none", <<>>)

NoRet == [status |-> "none", exc |-> "none", kind |-> "none", value |-> <<>>]

Returned(v) == [status |-> "returned", exc |-> "none", kind |-> v.kind, value |-> v.value]

Raised(e) == [status |-> "raised", exc |-> e, kind |-> "none", value |-> <<>>]

(* ------------------------------ loading ------------------------------- *)

\* pd.to_datetime(..., errors='coerce') on one cell
to_datetime(raw) ==
  CASE raw = "2024-01-01" -> <<2024, 1, 1>>
    [] raw = "2024-01-02" -> <<2024, 1, 2>>
    [] OTHER -> NaT

\* .astype('str') on one datetime
astype_str(d) ==
  CASE d = <<2024, 1, 1>> -> "2024-01-01"
    [] d = <<2024, 1, 2>> -> "2024-01-02"
    [] OTHER -> "NaT"

\* pd.read_csv: the exception it raises, or "none"
read_csv_error(f) ==
  CASE f.kind = "missing" -> "FileNotFoundError"
    [] f.kind = "zero_bytes" -> "EmptyDataError"
    [] f.kind = "ragged" -> "ParserError"
    [] OTHER -> "none"

\* the rows of the frame after df['date'] = pd.to_datetime(df['date'], ...)
parsed_rows(f) ==
  [i \in DOMAIN f.rows |->
     [date |-> to_datetime(f.rows[i].date),
      city |-> f.rows[i].city,
      temperature_celsius |-> f.rows[i].reading[1],
      temperature_fahrenheit |-> f.rows[i].reading[2]]]

DataFrame(rows) == [kind |-> "DataFrame", value |-> rows]

\* load_data: [status, df, log]; a KeyError on df['date'] is not caught
load_data(f) ==
  LET err == read_csv_error(f) IN
  CASE err = "FileNotFoundError" ->
         [status |-> "returned", df |-> None, log |-> <<"error: File not found">>]
    [] err = "EmptyDataError" ->
         [status |-> "returned", df |-> None, log |-> <<"error: No data">>]
    [] err = "ParserError" ->
         [status |-> "returned", df |-> None, log |-> <<"error: Parsing error">>]
    [] err = "none" /\ f.kind = "no_date_column" ->
         [status |-> "KeyError", df |-> None, log |-> <<>>]
    [] OTHER ->
         LET rows == parsed_rows(f) IN
         [status |-> "returned",
          df |-> DataFrame(rows),
          log |-> IF \E i \in DOMAIN rows : rows[i].date = NaT
                  THEN <<"warning: Some dates could not be parsed">>
                  ELSE <<>>]

Init ==
  /\ file \in Files
  /\ phase = "new"
  /\ df = None
  /\ log = <<>>
  /\ call = NoCall
  /\ ret = NoRet
  /\ invoked = <<>>

\* WeatherDataAnalyser(file_path): __init__ stores load_data()'s result
Construct ==
  /\ phase = "new"
  /\ LET r == load_data(file) IN
       /\ phase' = IF r.status = "returned" THEN "ready" ELSE "crashed"
       /\ df' = r.df
       /\ log' = r.log
  /\ UNCHANGED <<file, call, ret, invoked>>

(* ------------------------------ helpers ------------------------------- *)

\* row[f'temperature_{uom}'], in hundredths
column(row, uom) ==
  IF uom = "celsius" THEN row.temperature_celsius ELSE row.temperature_fahrenheit

\* whether df has a column f'temperature_{uom}'
has_column(uom) == uom \in {"celsius", "fahrenheit"}

\* the group keys of groupby('city')
cities(rows) == {rows[i].city : i \in DOMAIN rows}

\* the row labels of one group of groupby('city')
city_group(rows, c) == {i \in DOMAIN rows : rows[i].city = c}

\* mutant: groupby('date', dropna=False) keeps the NaT key
dates_keep_nat(rows) == {rows[i].date : i \in DOMAIN rows}

\* the group keys of groupby('date'): NaT keys are dropped
dates(rows) == {rows[i].date : i \in DOMAIN rows} \ {NaT}

\* the row labels of one group of groupby('date')
date_group(rows, d) == {i \in DOMAIN rows : rows[i].date = d}

\* Series.max() over the rows I
series_max(rows, I, uom) ==
  CHOOSE m \in {column(rows[i], uom) : i \in I} :
    \A i \in I : column(rows[i], uom) <= m

\* Series.min() over the rows I
series_min(rows, I, uom) ==
  CHOOSE m \in {column(rows[i], uom) : i \in I} :
    \A i \in I : column(rows[i], uom) >= m

RECURSIVE series_sum(_, _, _)
series_sum(rows, I, uom) ==
  IF I = {} THEN 0
  ELSE LET i == CHOOSE j \in I : TRUE
       IN  column(rows[i], uom) + series_sum(rows, I \ {i}, uom)

\* round(x, 1) for x = num/den hundredths (den > 0): the nearest tenth,
\* halves to the even tenth; the result is in tenths
round1(num, den) ==
  LET unit == 10 * den
      q == num \div unit
      r == num % unit
  IN  IF 2 * r < unit THEN q
      ELSE IF 2 * r > unit THEN q + 1
      ELSE IF q % 2 = 0 THEN q ELSE q + 1

\* mutant: the last label holding the maximum
idxmax_last(rows, I, uom) ==
  CHOOSE i \in I :
    /\ column(rows[i], uom) = series_max(rows, I, uom)
    /\ \A j \in I : column(rows[j], uom) = series_max(rows, I, uom) => i >= j

\* Series.idxmax() over the rows I: the first label holding the maximum
idxmax(rows, I, uom) ==
  CHOOSE i \in I :
    /\ column(rows[i], uom) = series_max(rows, I, uom)
    /\ \A j \in I : column(rows[j], uom) = series_max(rows, I, uom) => i <= j

(* ------------------------------ queries ------------------------------- *)

get_highest_temperature_by_city(d, uom) ==
  IF d = None THEN Raised("AttributeError")
  ELSE IF ~has_column(uom) THEN Raised("KeyError")
  ELSE Returned([kind |-> "dict",
                 value |-> [c \in cities(d.value) |->
                   round1(series_max(d.value, city_group(d.value, c), uom), 1)]])

\* the per-city fluctuation Series of line 38, in tenths
fluctuation(rows, uom) ==
  [c \in cities(rows) |->
     round1(series_max(rows, city_group(rows, c), uom)
              - series_min(rows, city_group(rows, c), uom), 1)]

\* mutant: fluctuation >= fluctuation_threshold
get_temperature_fluctuation_inclusive(d, fluctuation_threshold, uom) ==
  IF d = None THEN Raised("AttributeError")
  ELSE IF ~has_column(uom) THEN Raised("KeyError")
  ELSE Returned([kind |-> "list",
                 value |-> SelectSeq(CityOrder, LAMBDA c :
                   /\ c \in cities(d.value)
                   /\ fluctuation(d.value, uom)[c] >= 10 * fluctuation_threshold)])

get_temperature_fluctuation(d, fluctuation_threshold, uom) ==
  IF d = None THEN Raised("AttributeError")
  ELSE IF ~has_column(uom) THEN Raised("KeyError")
  ELSE Returned([kind |-> "list",
                 value |-> SelectSeq(CityOrder, LAMBDA c :
                   /\ c \in cities(d.value)
                   /\ fluctuation(d.value, uom)[c] > 10 * fluctuation_threshold)])

\* mutant: .sum() in place of .mean()
get_sum_temperature_by_city(d, uom) ==
  IF d = None THEN Raised("AttributeError")
  ELSE IF ~has_column(uom) THEN Raised("KeyError")
  ELSE Returned([kind |-> "dict",
                 value |-> [c \in cities(d.value) |->
                   round1(series_sum(d.value, city_group(d.value, c), uom), 1)]])

get_average_temperature_by_city(d, uom) ==
  IF d = None THEN Raised("AttributeError")
  ELSE IF ~has_column(uom) THEN Raised("KeyError")
  ELSE Returned([kind |-> "dict",
                 value |-> [c \in cities(d.value) |->
                   round1(series_sum(d.value, city_group(d.value, c), uom),
                          Cardinality(city_group(d.value, c)))]])

get_highest_temperature_by_date(d, uom) ==
  IF d = None THEN Raised("AttributeError")
  ELSE IF ~has_column(uom) THEN Raised("KeyError")
  ELSE Returned([kind |-> "dict",
                 value |-> [s \in {astype_str(x) : x \in dates(d.value)} |->
                   LET x == CHOOSE y \in dates(d.value) : astype_str(y) = s
                   IN  d.value[idxmax(d.value, date_group(d.value, x), uom)].city]])

get_overall_average_temperature(d, uom) ==
  IF d = None THEN Raised("TypeError")
  ELSE IF ~has_column(uom) THEN Raised("KeyError")
  ELSE Returned([kind |-> "float",
                 value |-> IF Len(d.value) = 0 THEN NaN
                           ELSE round1(series_sum(d.value, DOMAIN d.value, uom),
                                       Len(d.value))])

\* the five sub-queries in the order analyze's dict display evaluates them
sub_calls(fluctuation_threshold, uom) ==
  <<Call("get_highest_temperature_by_city", <<uom>>),
    Call("get_highest_temperature_by_date", <<uom>>),
    Call("get_temperature_fluctuation", <<fluctuation_threshold, uom>>),
    Call("get_average_temperature_by_city", <<uom>>),
    Call("get_overall_average_temperature", <<uom>>)>>

\* mutant: the fluctuation query is given the default threshold
sub_results_default_threshold(d, fluctuation_threshold, uom) ==
  <<get_highest_temperature_by_city(d, uom),
    get_highest_temperature_by_date(d, uom),
    get_temperature_fluctuation(d, DefaultThreshold, uom),
    get_average_temperature_by_city(d, uom),
    get_overall_average_temperature(d, uom)>>

sub_results(d, fluctuation_threshold, uom) ==
  <<get_highest_temperature_by_city(d, uom),
    get_highest_temperature_by_date(d, uom),
    get_temperature_fluctuation(d, fluctuation_threshold, uom),
    get_average_temperature_by_city(d, uom),
    get_overall_average_temperature(d, uom)>>

\* the body of analyze after its guards (lines 58-64): [ret, invoked];
\* a sub-query that raises ends the call with the sub-queries entered so far
report(d, fluctuation_threshold, uom) ==
  LET calls == sub_calls(fluctuation_threshold, uom)
      outs == sub_results(d, fluctuation_threshold, uom)
      failed == {i \in DOMAIN outs : outs[i].status = "raised"}
  IN  IF failed # {}
      THEN LET k == CHOOSE i \in failed : \A j \in failed : i <= j
           IN  [ret |-> outs[k], invoked |-> SubSeq(calls, 1, k)]
      ELSE [ret |-> Returned([kind |-> "report",
              value |-> [highest_temperature_by_city |-> outs[1].value,
                         highest_temperature_by_date |-> outs[2].value,
                         cities_with_high_fluctuation |-> outs[3].value,
                         city_averages |-> outs[4].value,
                         average_temperature |-> outs[5].value]]),
            invoked |-> calls]

\* mutant: the assertion on uom is missing
analyze_without_unit_check(d, fluctuation_threshold, uom) ==
  IF d = None THEN [ret |-> Returned(None), invoked |-> <<>>]
  ELSE IF ~(fluctuation_threshold > 0)
    THEN [ret |-> Raised("AssertionError"), invoked |-> <<>>]
  ELSE report(d, fluctuation_threshold, uom)

\* analyze: [ret, invoked]; invoked lists the sub-queries it entered
analyze(d, fluctuation_threshold, uom) ==
  IF d = None THEN [ret |-> Returned(None), invoked |-> <<>>]
  ELSE IF ~(uom \in {"celsius", "fahrenheit"})
    THEN [ret |-> Raised("AssertionError"), invoked |-> <<>>]
  ELSE IF ~(fluctuation_threshold > 0)
    THEN [ret |-> Raised("AssertionError"), invoked |-> <<>>]
  ELSE report(d, fluctuation_threshold, uom)

(* ------------------------------ actions ------------------------------- *)

\* a direct call of one query method on the constructed analyser
Query(c, out) ==
  /\ phase = "ready"
  /\ call' = c
  /\ ret' = out
  /\ invoked' = <<c>>
  /\ UNCHANGED <<file, phase, df, log>>

GetHighestTemperatureByCity ==
  \E uom \in Uoms :
    Query(Call("get_highest_temperature_by_city", <<uom>>),
          get_highest_temperature_by_city(df, uom))

GetTemperatureFluctuation ==
  \E t \in Thresholds, uom \in Uoms :
    Query(Call("get_temperature_fluctuation", <<t, uom>>),
          get_temperature_fluctuation(df, t, uom))

GetAverageTemperatureByCity ==
  \E uom \in Uoms :
    Query(Call("get_average_temperature_by_city", <<uom>>),
          get_average_temperature_by_city(df, uom))

\* mutant: the query drops the null-date rows from self.df in place
GetHighestTemperatureByDateDroppingNaT ==
  \E uom \in Uoms :
    /\ phase = "ready"
    /\ call' = Call("get_highest_temperature_by_date", <<uom>>)
    /\ ret' = get_highest_temperature_by_date(df, uom)
    /\ invoked' = <<call'>>
    /\ df' = IF df = None THEN df
             ELSE DataFrame(SelectSeq(df.value, LAMBDA r : r.date # NaT))
    /\ UNCHANGED <<file, phase, log>>

GetHighestTemperatureByDate ==
  \E uom \in Uoms :
    Query(Call("get_highest_temperature_by_date", <<uom>>),
          get_highest_temperature_by_date(df, uom))

GetOverallAverageTemperature ==
  \E uom \in Uoms :
    Query(Call("get_overall_average_temperature", <<uom>>),
          get_overall_average_temperature(df, uom))

Analyze ==
  \E t \in Thresholds, uom \in Uoms :
    /\ phase = "ready"
    /\ call' = Call("analyze", <<t, uom>>)
    /\ ret' = analyze(df, t, uom).ret
    /\ invoked' = analyze(df, t, uom).invoked
    /\ UNCHANGED <<file, phase, df, log>>

Next ==
  \/ Construct
  \/ GetHighestTemperatureByCity
  \/ GetTemperatureFluctuation
  \/ GetAverageTemperatureByCity
  \/ GetHighestTemperatureByDate
  \/ GetOverallAverageTemperature
  \/ Analyze

Spec == Init /\ [][Next]_vars
(* --------------------------- claim vocabulary ------------------------- *)

Ready == phase = "ready"

Loaded == Ready /\ df # None

Absent == Ready /\ df = None

ValidUom(u) == u \in {"celsius", "fahrenheit"}

QueryOps ==
  {"get_highest_temperature_by_city", "get_temperature_fluctuation",
   "get_average_temperature_by_city", "get_highest_temperature_by_date",
   "get_overall_average_temperature"}

\* the unit argument of the last call
CallUom == call.args[Len(call.args)]

\* the threshold argument of the last call (analyze, get_temperature_fluctuation)
CallThreshold == call.args[1]

\* row i's reading for the unit, in hundredths
Reading(i, u) ==
  IF u = "celsius" THEN df.value[i].temperature_celsius
  ELSE df.value[i].temperature_fahrenheit

RowsOfCity(c) == {i \in DOMAIN df.value : df.value[i].city = c}

RowsOfDate(d) == {i \in DOMAIN df.value : df.value[i].date = d}

PresentCities == {df.value[i].city : i \in DOMAIN df.value}

IsMaxOf(i, I, u) == i \in I /\ \A j \in I : Reading(j, u) <= Reading(i, u)

IsMinOf(i, I, u) == i \in I /\ \A j \in I : Reading(j, u) >= Reading(i, u)

SeqRange(s) == {s[i] : i \in DOMAIN s}

(* ------------------------------- C1 ----------------------------------- *)

C2_AbsentTableNeverRaises ==
  (Ready /\ read_csv_error(file) # "none")
    => /\ df = None
       /\ call.op \in QueryOps \cup {"analyze"} => ret = Returned(None)

(* ------------------------------- C3 ----------------------------------- *)

\* C3 (as stated): a file with no data rows (zero bytes, or a header row
\* only) loads as an absent table, and analyze with valid parameters on it
\* returns None.
C3_NoDataRowsIsAbsent ==
  (Ready /\ file.kind \in {"zero_bytes", "csv"} /\ Len(file.rows) = 0)
    => /\ df = None
       /\ (call.op = "analyze" /\ ValidUom(CallUom) /\ CallThreshold > 0)
            => ret = Returned(None)

(* ------------------------------- C4 ----------------------------------- *)

\* C4 (as stated): a direct call of get_temperature_fluctuation with a
\* threshold <= 0 on a loaded table, with either unit, is rejected.
C4_DirectNonPositiveThresholdRejected ==
  (Loaded /\ call.op = "get_temperature_fluctuation"
     /\ ValidUom(CallUom) /\ CallThreshold <= 0)
    => ret.status = "raised"

(* ------------------------------- C5 ----------------------------------- *)

\* the last call was get_temperature_fluctuation(t, unit) with t > 0 and a
\* valid unit on a loaded table
FluctuationCalled ==
  /\ Loaded /\ call.op = "get_temperature_fluctuation"
  /\ ValidUom(CallUom) /\ CallThreshold > 0

\* the city's highest and lowest reading, each rounded to 1 decimal (tenths)
RoundedMax(c, u) ==
  LET i == CHOOSE k \in RowsOfCity(c) : IsMaxOf(k, RowsOfCity(c), u)
  IN  round1(Reading(i, u), 1)

RoundedMin(c, u) ==
  LET i == CHOOSE k \in RowsOfCity(c) : IsMinOf(k, RowsOfCity(c), u)
  IN  round1(Reading(i, u), 1)

\* the city's range of unrounded readings, rounded to 1 decimal (tenths)
RoundedRange(c, u) ==
  LET i == CHOOSE k \in RowsOfCity(c) : IsMaxOf(k, RowsOfCity(c), u)
      j == CHOOSE k \in RowsOfCity(c) : IsMinOf(k, RowsOfCity(c), u)
  IN  round1(Reading(i, u) - Reading(j, u), 1)

\* C5 (as stated): the cities returned are exactly those whose rounded
\* maximum minus rounded minimum is strictly greater than t.
C5_FluctuationOfRoundedExtremes ==
  FluctuationCalled
    => /\ ret.status = "returned"
       /\ SeqRange(ret.value) =
            {c \in PresentCities :
               RoundedMax(c, CallUom) - RoundedMin(c, CallUom) > 10 * CallThreshold}

\* C5 (amended): the cities returned are exactly those whose range
\* (max - min of the unrounded readings), rounded to 1 decimal, is strictly
\* greater than t; a city whose rounded range equals t is not returned.
C5_FluctuationOfRoundedRange ==
  FluctuationCalled
    => /\ ret.status = "returned"
       /\ SeqRange(ret.value) =
            {c \in PresentCities : RoundedRange(c, CallUom) > 10 * CallThreshold}
       /\ \A c \in PresentCities :
            RoundedRange(c, CallUom) = 10 * CallThreshold => c \notin SeqRange(ret.value)

\* C5 witness: a city whose rounded range equals the threshold, while its
\* rounded maximum minus its rounded minimum exceeds it, is not returned
C5_Witness ==
  /\ FluctuationCalled
  /\ \E c \in PresentCities :
       /\ RoundedRange(c, CallUom) = 10 * CallThreshold
       /\ RoundedMax(c, CallUom) - RoundedMin(c, CallUom) > 10 * CallThreshold
       /\ c \notin SeqRange(ret.value)

(* ------------------------------- C6 ----------------------------------- *)

HighestByDateCalled ==
  Loaded /\ call.op = "get_highest_temperature_by_date" /\ ValidUom(CallUom)

NonNullDates == {df.value[i].date : i \in DOMAIN df.value} \ {NaT}

\* C6: get_highest_temperature_by_date maps each distinct non-null date to
\* the city of the earliest row, in load order, among the rows of that date
\* holding the date's maximum reading.
C6_HighestByDateFirstOfTies ==
  HighestByDateCalled
    => /\ ret.status = "returned"
       /\ DOMAIN ret.value = {astype_str(d) : d \in NonNullDates}
       /\ \A d \in NonNullDates :
            \E i \in RowsOfDate(d) :
              /\ IsMaxOf(i, RowsOfDate(d), CallUom)
              /\ \A j \in RowsOfDate(d) :
                   IsMaxOf(j, RowsOfDate(d), CallUom) => i <= j
              /\ ret.value[astype_str(d)] = df.value[i].city

\* C6 witness: two rows of one date tie for the maximum, in different
\* cities, and the date's entry is the first row's city
C6_Witness ==
  /\ HighestByDateCalled
  /\ \E d \in NonNullDates : \E i, j \in RowsOfDate(d) :
       /\ i < j
       /\ Reading(i, CallUom) = Reading(j, CallUom)
       /\ df.value[i].city # df.value[j].city
       /\ ret.value[astype_str(d)] = df.value[i].city

(* ------------------------------- C7 ----------------------------------- *)

\* the table with every null date replaced by a valid one
Redated ==
  DataFrame([i \in DOMAIN df.value |->
    IF df.value[i].date = NaT
    THEN [df.value[i] EXCEPT !.date = <<2024, 1, 1>>]
    ELSE df.value[i]])

\* the table without its null-date rows
DatedOnly == DataFrame(SelectSeq(df.value, LAMBDA r : r.date # NaT))

\* C7: a row whose date failed to parse is kept; every city-keyed aggregate
\* and the overall average are what they would be had the row a valid date;
\* get_highest_temperature_by_date has exactly the distinct non-null dates
\* as keys and is what it would be without the null-date rows.
C7_NullDateRows ==
  Loaded
    => /\ Len(df.value) = Len(file.rows)
       /\ \A i \in DOMAIN df.value :
            /\ df.value[i].city = file.rows[i].city
            /\ df.value[i].temperature_celsius = file.rows[i].reading[1]
            /\ df.value[i].temperature_fahrenheit = file.rows[i].reading[2]
            /\ (df.value[i].date = NaT) = (file.rows[i].date = "not-a-date")
       /\ (call.op = "get_highest_temperature_by_city" /\ ValidUom(CallUom))
            => ret = get_highest_temperature_by_city(Redated, CallUom)
       /\ (call.op = "get_average_temperature_by_city" /\ ValidUom(CallUom))
            => ret = get_average_temperature_by_city(Redated, CallUom)
       /\ (call.op = "get_temperature_fluctuation" /\ ValidUom(CallUom))
            => ret = get_temperature_fluctuation(Redated, CallThreshold, CallUom)
       /\ (call.op = "get_overall_average_temperature" /\ ValidUom(CallUom))
            => ret = get_overall_average_temperature(Redated, CallUom)
       /\ (call.op = "get_highest_temperature_by_date" /\ ValidUom(CallUom))
            => /\ ret.status = "returned"
               /\ DOMAIN ret.value = {astype_str(d) : d \in NonNullDates}
               /\ ret = get_highest_temperature_by_date(DatedOnly, CallUom)

\* C7 witness: a table with a null-date row and a dated row of another
\* city; get_highest_temperature_by_date returned one key
C7_Witness ==
  /\ HighestByDateCalled
  /\ \E i, j \in DOMAIN df.value :
       /\ df.value[i].date = NaT /\ df.value[j].date # NaT
       /\ df.value[i].city # df.value[j].city
       /\ Reading(i, CallUom) > Reading(j, CallUom)
  /\ Cardinality(DOMAIN ret.value) = 1

(* ------------------------------- C8 ----------------------------------- *)

AverageByCityCalled ==
  Loaded /\ call.op = "get_average_temperature_by_city" /\ ValidUom(CallUom)

\* the city's smallest reading, unrounded (hundredths)
ActualMin(c, u) ==
  Reading(CHOOSE k \in RowsOfCity(c) : IsMinOf(k, RowsOfCity(c), u), u)

AnalyzeCalledValid ==
  /\ Ready /\ call.op = "analyze"
  /\ ValidUom(CallUom) /\ CallThreshold > 0

\* C9: with valid parameters, analyze on an absent table returns None and
\* enters no sub-query; on a loaded table it returns a report whose five
\* fields are the results of the five queries called with the same
\* threshold and unit.
C9_AnalyzeAbsenceOrReport ==
  AnalyzeCalledValid
    => /\ df = None => (ret = Returned(None) /\ invoked = <<>>)
       /\ df # None =>
            /\ ret.status = "returned" /\ ret.kind = "report"
            /\ ret.value.highest_temperature_by_city
                 = get_highest_temperature_by_city(df, CallUom).value
            /\ ret.value.highest_temperature_by_date
                 = get_highest_temperature_by_date(df, CallUom).value
            /\ ret.value.cities_with_high_fluctuation
                 = get_temperature_fluctuation(df, CallThreshold, CallUom).value
            /\ ret.value.city_averages
                 = get_average_temperature_by_city(df, CallUom).value
            /\ ret.value.average_temperature
                 = get_overall_average_temperature(df, CallUom).value
            /\ Len(invoked) = 5
            /\ \A i \in DOMAIN invoked :
                 invoked[i].args[Len(invoked[i].args)] = CallUom
            /\ invoked[3] = Call("get_temperature_fluctuation", call.args)

\* C9 witness: analyze returned a report on a table whose two unit columns
\* give different averages, with a city above the threshold
C9_Witness ==
  /\ AnalyzeCalledValid /\ Loaded
  /\ ret.kind = "report"
  /\ ret.value.cities_with_high_fluctuation # <<>>
  /\ get_average_temperature_by_city(df, "celsius")
       # get_average_temperature_by_city(df, "fahrenheit")

(* ------------------------------- C10 ---------------------------------- *)

\* C10: once constructed, the table is the one the load produced and no
\* call changes it, rejected calls included; a call repeated with the same
\* parameters has the same outcome.
C10_TableNeverChanges ==
  /\ [](Ready => df = load_data(file).df)
  /\ [][Ready => (df' = df /\ (call' = call => ret' = ret))]_vars

\* C10 witness: a rejected call was made on a loaded table that has a
\* null-date row, and the table is still the loaded one
C10_Witness ==
  /\ Loaded /\ ret.status = "raised"
  /\ \E i \in DOMAIN df.value : df.value[i].date = NaT
  /\ df = DataFrame(parsed_rows(file))

====
